---- MODULE Spec2Model ----
(***************************************************************************)
(* Vykso account and job ledger: the SQL stored procedures and row-level   *)
(* security policies of database-schema.sql, the tier classifier of        *)
(* migration-tier-update.sql, and the job lifecycle the backend drives.    *)
(***************************************************************************)
EXTENDS Integers, Sequences, FiniteSets, TLC

(***************************************************************************)
(* Bounds of the model.                                                    *)
(***************************************************************************)
NumUsers == 1
NumProcs == 2
AmountUnit == 6
MaxUnits == 1
MaxLog == 2
MaxJobs == 2
MaxDeliveries == 2
MaxPlanLen == 4
MaxEvents == 2

Users == 1..NumUsers
\* an id no row of auth.users has
NoSuchUser == 0
Ids == Users \cup {NoSuchUser}
\* p_user_id NULL
NullId == -1
Procs == 1..NumProcs
Amounts == {AmountUnit * k : k \in 1..MaxUnits}
Events == 1..MaxEvents

\* handle_new_user: "10, -- Credits initiaux pour le plan free"
InitialCredits == 10

VARIABLES
    authUsers,      \* ids of the rows of auth.users
    profiles,       \* committed rows of profiles: id -> [exists, credits]
    log,            \* committed rows of credit_transactions, in insertion order
    lock,           \* row lock of profiles[id]: the session holding it, or 0
    pc,             \* position of each database session in its function call
    call,           \* the function call a session runs: [op, uid, amt, type]
    cur,            \* the call's local variable current_credits
    wCredits,       \* the session's uncommitted value of profiles.credits
    wTx,            \* the session's uncommitted credit_transactions rows
    last,           \* the call that ended last, with its outcome
    expected,       \* per account: the balance the committed writes add up to
    jobs,           \* rows of video_jobs, in insertion order
    submitted,      \* the jobs the generation provider was handed
    deliveries,     \* per job: how often its job-failed signal was delivered
    planName,       \* the argument of get_tier_from_plan
    tierOut,        \* what get_tier_from_plan returned for it, or "unset"
    planCols,       \* profiles rows, columns plan, plan_family,
                    \* preferred_aspect_ratio: id -> their values
    webhookLogs,    \* event_id of the rows of webhook_logs
    eventDeliveries, \* per billing event: how often it was delivered
    galleryMounted, \* VideoGallery is mounted
    polling,        \* VideoGallery: the state polling, a set of job ids
    tickPolling,    \* the value of polling the running interval callback sees
    statusInFlight, \* getStatus responses on their way: [job, status]
    listInFlight,   \* getUserVideos responses on their way: data.videos
    seenTerminal,   \* jobs for which a completed or failed response was handled
    videos,         \* VideoGallery: the state videos, job id -> status shown
    form,           \* VideoGenerator: its fields and what handleGenerate did
    authStore,      \* useAuthStore: user, userData, loading
    authClient,     \* the session, AuthProvider, pending requests and events,
                    \* the payment-success page
    pricing,        \* PricingPage: its state and the checkouts it asked for
    callback,       \* GET /auth/callback: the request and the response
    launcher        \* start-server.js: the launcher process and its child

txnVars == <<lock, pc, call, cur, wCredits, wTx, last, expected>>
jobVars == <<jobs, submitted, deliveries>>
tierVars == <<planName, tierOut>>
billingVars == <<webhookLogs, eventDeliveries>>
pageVars == <<pricing, callback, launcher>>
clientVars == <<galleryMounted, polling, tickPolling, statusInFlight, listInFlight,
                seenTerminal, videos, form, authStore, authClient, pageVars>>
vars == <<authUsers, profiles, log, lock, pc, call, cur, wCredits, wTx, last, expected,
          jobs, submitted, deliveries, planName, tierOut, planCols, webhookLogs,
          eventDeliveries, galleryMounted, polling, tickPolling, statusInFlight,
          listInFlight, seenTerminal, videos, form, authStore, authClient, pageVars>>
\* what the ledger's operations leave alone
signupFrame == <<jobs, submitted, deliveries, planName, tierOut, billingVars,
                 clientVars>>
ledgerFrame == <<signupFrame, planCols>>

(***************************************************************************)
(* SQL values.                                                             *)
(***************************************************************************)
Null == [isNull |-> TRUE, v |-> 0]
Val(n) == [isNull |-> FALSE, v |-> n]
\* a TEXT value: NULL, or a sequence of one-character strings
NullPlan == [isNull |-> TRUE, v |-> <<>>]
PlanVal(s) == [isNull |-> FALSE, v |-> s]

NoProfile == [exists |-> FALSE, credits |-> 0]
NoCall == [op |-> "none", uid |-> 0, amt |-> 0, type |-> "none"]
NoOutcome == [op |-> "none", status |-> "none", value |-> Null, error |-> "none"]
Ok(c, v) == [op |-> c.op, status |-> "ok", value |-> v, error |-> "none"]
Raise(c, msg) == [op |-> c.op, status |-> "error", value |-> Null, error |-> msg]

TxRow(uid, amt, type) == [user_id |-> uid, amount |-> amt, type |-> type]

RECURSIVE SumAmounts(_, _)
SumAmounts(rows, uid) ==
    IF rows = <<>> THEN 0
    ELSE (IF Head(rows).user_id = uid THEN Head(rows).amount ELSE 0)
         + SumAmounts(Tail(rows), uid)

(***************************************************************************)
(* Statements of the stored procedures.                                    *)
(***************************************************************************)
\* WHERE id = p_user_id finds a row; no row has id NULL
RowExists(P, uid) == uid \in DOMAIN P /\ P[uid].exists

\* SELECT credits INTO current_credits FROM profiles WHERE id = p_user_id
SelectCredits(P, uid) ==
    IF RowExists(P, uid) THEN Val(P[uid].credits) ELSE Null

\* a sufficiency check that looks at the balance alone, not at the amount
InsufficientIgnoresAmount(c, amt) == c.v < 0

\* IF current_credits < p_amount THEN RAISE EXCEPTION 'Insufficient credits'
Insufficient(c, amt) == c.v < amt

\* a debit that writes back the value the SELECT read, less the amount
DebitValueFromRead(rowCredits, readCredits, amt) == readCredits - amt

\* SET credits = credits - p_amount: evaluated on the row the UPDATE locks,
\* which is its latest committed version, not the value the SELECT read
DebitValue(rowCredits, readCredits, amt) == rowCredits - amt

\* a credit with the sign of the amount slipped
CreditValueSignSlip(rowCredits, amt) == rowCredits - amt

\* SET credits = credits + p_amount
CreditValue(rowCredits, amt) == rowCredits + amt

\* credit_transactions.user_id UUID REFERENCES auth.users(id): the column is
\* nullable and a NULL user_id refers to nothing
FkUserOk(A, uid) == uid = NullId \/ uid \in A

\* the rows the INSERT INTO credit_transactions of each function adds
DebitRows(uid, amt) == <<TxRow(uid, -amt, "debit")>>
\* a refund that writes no row
RefundRowsNone(uid, amt) == <<>>
RefundRows(uid, amt) == <<TxRow(uid, amt, "refund")>>
AddRows(uid, amt, type) == <<TxRow(uid, amt, type)>>

(***************************************************************************)
(* get_tier_from_plan(plan_name TEXT).                                     *)
(***************************************************************************)
UpperLetters ==
    <<"A", "B", "C", "D", "E", "F", "G", "H", "I", "J", "K", "L", "M",
      "N", "O", "P", "Q", "R", "S", "T", "U", "V", "W", "X", "Y", "Z">>
LowerLetters ==
    <<"a", "b", "c", "d", "e", "f", "g", "h", "i", "j", "k", "l", "m",
      "n", "o", "p", "q", "r", "s", "t", "u", "v", "w", "x", "y", "z">>

\* LOWER(text)
LowerChar(c) ==
    IF \E i \in 1..Len(UpperLetters) : UpperLetters[i] = c
    THEN LowerLetters[CHOOSE i \in 1..Len(UpperLetters) : UpperLetters[i] = c]
    ELSE c
Lower(s) == [i \in 1..Len(s) |-> LowerChar(s[i])]

\* a LIKE pattern read with its ESCAPE character: % is any sequence of
\* characters, _ any one character, the character after the escape character
\* stands for itself, every other character stands for itself
RECURSIVE LikeTokens(_, _)
LikeTokens(pat, esc) ==
    IF pat = <<>> THEN <<>>
    ELSE IF Head(pat) = esc
    THEN IF Len(pat) >= 2
         THEN <<[kind |-> "lit", c |-> pat[2]]>>
              \o LikeTokens(SubSeq(pat, 3, Len(pat)), esc)
         ELSE <<[kind |-> "bad", c |-> esc]>>
    ELSE IF Head(pat) = "%"
    THEN <<[kind |-> "any", c |-> "%"]>> \o LikeTokens(Tail(pat), esc)
    ELSE IF Head(pat) = "_"
    THEN <<[kind |-> "one", c |-> "_"]>> \o LikeTokens(Tail(pat), esc)
    ELSE <<[kind |-> "lit", c |-> Head(pat)]>> \o LikeTokens(Tail(pat), esc)

\* string LIKE pattern: the pattern has to cover the whole string
RECURSIVE LikeMatch(_, _)
LikeMatch(s, toks) ==
    IF toks = <<>> THEN s = <<>>
    ELSE IF Head(toks).kind = "any"
    THEN \E i \in 0..Len(s) : LikeMatch(SubSeq(s, i + 1, Len(s)), Tail(toks))
    ELSE IF s = <<>> \/ Head(toks).kind = "bad" THEN FALSE
    ELSE IF Head(toks).kind = "one" THEN LikeMatch(Tail(s), Tail(toks))
    ELSE Head(s) = Head(toks).c /\ LikeMatch(Tail(s), Tail(toks))

Like(s, pat, esc) == LikeMatch(s, LikeTokens(pat, esc))

\* the pattern without the backslash: _ matches any one character
TierPatternNoEscape == <<"%", "_", "p", "r", "o">>

\* '%\_pro' ESCAPE '\'
TierPattern == <<"%", "\\", "_", "p", "r", "o">>
TierEscape == "\\"

\* IN ('premium_pro', 'pro_pro', 'max_pro', 'starter_pro')
ExplicitProPlans ==
    {<<"p", "r", "e", "m", "i", "u", "m", "_", "p", "r", "o">>,
     <<"p", "r", "o", "_", "p", "r", "o">>,
     <<"m", "a", "x", "_", "p", "r", "o">>,
     <<"s", "t", "a", "r", "t", "e", "r", "_", "p", "r", "o">>}

get_tier_from_plan(plan_name) ==
    IF plan_name.isNull \/ plan_name.v = <<>> THEN "creator"
    ELSE IF Like(Lower(plan_name.v), TierPattern, TierEscape) THEN "professional"
    ELSE IF Lower(plan_name.v) \in ExplicitProPlans THEN "professional"
    ELSE "creator"

\* get_aspect_ratio_from_tier(tier_name TEXT)
get_aspect_ratio_from_tier(tier_name) ==
    IF tier_name = "professional" THEN "16:9" ELSE "9:16"

(***************************************************************************)
(* Columns plan, plan_family and preferred_aspect_ratio of profiles, and   *)
(* trigger_update_tier_on_plan_change: BEFORE INSERT OR UPDATE OF plan.    *)
(***************************************************************************)
PlanFree == <<"f", "r", "e", "e">>
PlanPro == <<"p", "r", "o">>
PlanProPro == <<"p", "r", "o", "_", "p", "r", "o">>
PlanMaxPro == <<"m", "a", "x", "_", "p", "r", "o">>

PlanCols(plan, family, ratio) ==
    [plan |-> plan, plan_family |-> family, preferred_aspect_ratio |-> ratio]

\* plan_family TEXT DEFAULT 'creator', preferred_aspect_ratio TEXT DEFAULT '9:16'
DefaultFamily == "creator"
DefaultRatio == "9:16"
NoPlanCols == PlanCols(NullPlan, DefaultFamily, DefaultRatio)

\* a trigger function that returns NEW as it came
TriggerKeepsNew(new) == new

\* update_tier_on_plan_change(): NEW.plan_family and
\* NEW.preferred_aspect_ratio are computed from NEW.plan
update_tier_on_plan_change(new) ==
    LET family == get_tier_from_plan(new.plan)
    IN  [new EXCEPT !.plan_family = family,
                    !.preferred_aspect_ratio = get_aspect_ratio_from_tier(family)]

\* INSERT INTO profiles (.., plan): the other two columns take their
\* defaults, then the trigger runs
InsertedPlanCols(plan) ==
    update_tier_on_plan_change(PlanCols(plan, DefaultFamily, DefaultRatio))

\* UPDATE profiles SET <set list>: NEW is the row with the listed columns
\* replaced
ApplySet(row, set) ==
    [plan |-> IF "plan" \in DOMAIN set THEN set.plan ELSE row.plan,
     plan_family |-> IF "plan_family" \in DOMAIN set
                     THEN set.plan_family ELSE row.plan_family,
     preferred_aspect_ratio |-> IF "preferred_aspect_ratio" \in DOMAIN set
                                THEN set.preferred_aspect_ratio
                                ELSE row.preferred_aspect_ratio]

\* UPDATE OF plan: the trigger runs when plan is in the set list
TriggerOnUpdate(set) == "plan" \in DOMAIN set

UpdatedPlanCols(row, set) ==
    IF TriggerOnUpdate(set) THEN update_tier_on_plan_change(ApplySet(row, set))
    ELSE ApplySet(row, set)

(***************************************************************************)
(* Trigger handle_new_user: one profile per new auth.users row.            *)
(***************************************************************************)
NewProfile == [exists |-> TRUE, credits |-> InitialCredits]

\* INSERT INTO public.profiles (id, full_name, credits, plan) VALUES (.., 'free')
HandleNewUser(u) ==
    /\ u \notin authUsers
    /\ authUsers' = authUsers \cup {u}
    /\ profiles' = [profiles EXCEPT ![u] = NewProfile]
    /\ planCols' = [planCols EXCEPT ![u] = InsertedPlanCols(PlanVal(PlanFree))]
    /\ expected' = [expected EXCEPT ![u] = InitialCredits]
    /\ UNCHANGED <<log, lock, pc, call, cur, wCredits, wTx, last>>
    /\ UNCHANGED signupFrame

(***************************************************************************)
(* Policy "Users can update their own profile": an authenticated user may  *)
(* UPDATE every column of the profiles row whose id is auth.uid(), credits *)
(* included.  The statement waits while another session holds the row.     *)
(***************************************************************************)
UserUpdateAllowed(authUid, rowId) == authUid = rowId

UserUpdateProfile(u, rowId, v) ==
    /\ u \in authUsers
    /\ profiles[rowId].exists
    /\ UserUpdateAllowed(u, rowId)
    /\ lock[rowId] = 0
    /\ profiles' = [profiles EXCEPT ![rowId].credits = v]
    /\ expected' = [expected EXCEPT ![rowId] = v]
    /\ UNCHANGED <<authUsers, log, lock, pc, call, cur, wCredits, wTx, last>>
    /\ UNCHANGED ledgerFrame

(***************************************************************************)
(* A database session calls decrement_credits, refund_credits or           *)
(* add_credits.  Each call is one transaction at READ COMMITTED: its       *)
(* statements are separate steps, each reading the rows committed when it  *)
(* runs; the call's writes are private until it returns, and an exception  *)
(* discards them.  p_user_id is the id of a registered user or NoSuchUser. *)
(***************************************************************************)
InFlight == {q \in Procs : pc[q] # "idle"}

\* a free session takes a new call while the model's log has room for its row
CanBegin(p, uid) ==
    /\ pc[p] = "idle"
    /\ uid \in authUsers \cup {NoSuchUser}
    /\ Len(log) + Cardinality(InFlight) < MaxLog

\* the session is ready for its next call
EndCall(p) ==
    /\ pc' = [pc EXCEPT ![p] = "idle"]
    /\ call' = [call EXCEPT ![p] = NoCall]
    /\ cur' = [cur EXCEPT ![p] = Null]
    /\ wCredits' = [wCredits EXCEPT ![p] = Null]
    /\ wTx' = [wTx EXCEPT ![p] = <<>>]
    /\ lock' = [u \in Ids |-> IF lock[u] = p THEN 0 ELSE lock[u]]

\* RAISE EXCEPTION: the call ends, its writes are discarded, its lock released
Abort(p, c, msg) ==
    /\ last' = Raise(c, msg)
    /\ EndCall(p)
    /\ UNCHANGED <<authUsers, profiles, log, expected>>

\* decrement_credits, lines 254-262: the SELECT and the two checks on the
\* value it read
DecSelect(p, uid, amt) ==
    LET c == [op |-> "decrement", uid |-> uid, amt |-> amt, type |-> "debit"]
        current == SelectCredits(profiles, uid)
    IN  /\ CanBegin(p, uid)
        /\ UNCHANGED ledgerFrame
        /\ IF current.isNull
           THEN Abort(p, c, "User not found")
           ELSE IF Insufficient(current, amt)
           THEN Abort(p, c, "Insufficient credits")
           ELSE /\ call' = [call EXCEPT ![p] = c]
                /\ cur' = [cur EXCEPT ![p] = current]
                /\ pc' = [pc EXCEPT ![p] = "update"]
                /\ UNCHANGED <<authUsers, profiles, log, lock, wCredits, wTx, last,
                               expected>>

\* UPDATE profiles SET credits = ... WHERE id = p_user_id: waits for the row,
\* locks it until the call ends and writes the new value; no row, no write
UpdateRow(p, c, new) ==
    IF profiles[c.uid].exists
    THEN /\ lock[c.uid] = 0
         /\ lock' = [lock EXCEPT ![c.uid] = p]
         /\ wCredits' = [wCredits EXCEPT ![p] = Val(new)]
    ELSE UNCHANGED <<lock, wCredits>>

\* decrement_credits, lines 264-267
DecUpdate(p) ==
    /\ pc[p] = "update"
    /\ UpdateRow(p, call[p],
                 DebitValue(profiles[call[p].uid].credits, cur[p].v, call[p].amt))
    /\ pc' = [pc EXCEPT ![p] = "insert"]
    /\ UNCHANGED <<authUsers, profiles, log, call, cur, wTx, last, expected>>
    /\ UNCHANGED ledgerFrame

\* refund_credits, lines 285-289, and add_credits, lines 307-311:
\* UPDATE ... RETURNING credits INTO current_credits
CreditUpdate(p, op, uid, amt, type) ==
    LET c == [op |-> op, uid |-> uid, amt |-> amt, type |-> type]
        new == CreditValue(profiles[uid].credits, amt)
    IN  /\ CanBegin(p, uid)
        /\ UpdateRow(p, c, new)
        /\ call' = [call EXCEPT ![p] = c]
        /\ cur' = [cur EXCEPT ![p] = IF profiles[uid].exists THEN Val(new) ELSE Null]
        /\ pc' = [pc EXCEPT ![p] = "insert"]
        /\ UNCHANGED <<authUsers, profiles, log, wTx, last, expected>>
        /\ UNCHANGED ledgerFrame

\* the rows the call's INSERT INTO credit_transactions adds
CallRows(c) ==
    IF c.op = "decrement" THEN DebitRows(c.uid, c.amt)
    ELSE IF c.op = "refund" THEN RefundRows(c.uid, c.amt)
    ELSE AddRows(c.uid, c.amt, c.type)

\* INSERT INTO credit_transactions (user_id, amount, type, description)
Insert(p) ==
    /\ pc[p] = "insert"
    /\ UNCHANGED ledgerFrame
    /\ IF FkUserOk(authUsers, call[p].uid)
       THEN /\ wTx' = [wTx EXCEPT ![p] = CallRows(call[p])]
            /\ pc' = [pc EXCEPT ![p] = "return"]
            /\ UNCHANGED <<authUsers, profiles, log, lock, call, cur, wCredits,
                           last, expected>>
       ELSE Abort(p, call[p], "foreign key violation")

\* what the call hands back: RETURN current_credits - p_amount (decrement),
\* RETURN current_credits (refund, add)
ReturnValue(c, current) ==
    IF c.op = "decrement" THEN Val(current.v - c.amt) ELSE current

\* the change the call is meant to make to the balance
Intended(c) == IF c.op = "decrement" THEN -c.amt ELSE c.amt

\* RETURN: the function ends and its transaction commits
Return(p) ==
    /\ pc[p] = "return"
    /\ profiles' = IF wCredits[p].isNull THEN profiles
                   ELSE [profiles EXCEPT ![call[p].uid].credits = wCredits[p].v]
    /\ expected' = IF wCredits[p].isNull THEN expected
                   ELSE [expected EXCEPT ![call[p].uid] = @ + Intended(call[p])]
    /\ log' = log \o wTx[p]
    /\ last' = Ok(call[p], ReturnValue(call[p], cur[p]))
    /\ EndCall(p)
    /\ UNCHANGED authUsers
    /\ UNCHANGED ledgerFrame

\* refund_credits tags its row 'refund'; add_credits tags it p_type (TEXT
\* DEFAULT 'credit'), for which the backend passes 'credit' or 'subscription'
CreditOps == {"refund", "add"}
TypesOf(op) == IF op = "add" THEN {"credit", "subscription"} ELSE {"refund"}
\* values an account owner writes into credits
UserValues == {0, InitialCredits}

\* the dashboard is not open
ClientInit ==
    /\ galleryMounted = FALSE
    /\ polling = {}
    /\ tickPolling = {}
    /\ statusInFlight = {}
    /\ listInFlight = {}
    /\ seenTerminal = {}
    /\ videos = <<>>

\* the generator form is not open
NoForm == [open |-> FALSE]

\* the auth store and its clients before anything is mounted
MaxAuthEvents == 2

AuthIds == {"u1", "u2"}
NoUser == "none"

\* localStorage.getItem('userId'): no code of this repository writes the key
StoredUserId == NoUser

\* create<AuthState>: user: null, userData: null, loading: true
AuthStoreInit == [user |-> NoUser, userData |-> NoUser, loading |-> TRUE]

\* nothing mounted, no request made
NoAuthClient ==
    [session |-> NoUser, mounted |-> FALSE, getSession |-> "idle", events |-> <<>>,
     fetches |-> {}, page |-> "closed", pageSessionId |-> FALSE,
     pageFetched |-> NoUser]

AuthClosedInit ==
    /\ authStore = AuthStoreInit
    /\ authClient = NoAuthClient

\* the pricing page is not open
NoPricing == [open |-> FALSE]

\* no request to /auth/callback
NoResponse == [path |-> "none", error |-> "none"]
NoCallback == [open |-> FALSE]

\* the launcher is not running
NoChildExit == [kind |-> "none", code |-> 0, signal |-> "none"]
NoLauncher == [phase |-> "off"]

PagesClosedInit ==
    /\ pricing = NoPricing
    /\ callback = NoCallback
    /\ launcher = NoLauncher

\* no database session is in a function call
IdleInit ==
    /\ lock = [u \in Ids |-> 0]
    /\ pc = [p \in Procs |-> "idle"]
    /\ call = [p \in Procs |-> NoCall]
    /\ cur = [p \in Procs |-> Null]
    /\ wCredits = [p \in Procs |-> Null]
    /\ wTx = [p \in Procs |-> <<>>]

\* no row in any table of this schema, every session idle, no client
NoRowsInit ==
    /\ profiles = [u \in Ids |-> NoProfile]
    /\ log = <<>>
    /\ IdleInit
    /\ last = NoOutcome
    /\ expected = [u \in Ids |-> 0]
    /\ jobs = <<>>
    /\ submitted = {}
    /\ deliveries = <<>>
    /\ planCols = [u \in Ids |-> NoPlanCols]
    /\ webhookLogs = {}
    /\ eventDeliveries = [e \in Events |-> 0]
    /\ ClientInit

\* an empty database
EmptyInit ==
    /\ authUsers = {}
    /\ NoRowsInit
    /\ form = NoForm
    /\ AuthClosedInit
    /\ PagesClosedInit

LedgerInit ==
    /\ EmptyInit
    /\ planName = NullPlan
    /\ tierOut = "unset"

LedgerNext ==
    \/ \E u \in Users : HandleNewUser(u)
    \/ \E p \in Procs, uid \in Ids, amt \in Amounts : DecSelect(p, uid, amt)
    \/ \E p \in Procs : DecUpdate(p)
    \/ \E p \in Procs, op \in CreditOps, uid \in Ids, amt \in Amounts :
          \E type \in TypesOf(op) : CreditUpdate(p, op, uid, amt, type)
    \/ \E p \in Procs : Insert(p)
    \/ \E p \in Procs : Return(p)

SpecLedger == LedgerInit /\ [][LedgerNext]_vars

(***************************************************************************)
(* The ledger together with what row-level security lets an ordinary       *)
(* authenticated user do to the profiles table.                            *)
(***************************************************************************)
RlsNext ==
    \/ LedgerNext
    \/ \E u \in Users, r \in Users, v \in UserValues : UserUpdateProfile(u, r, v)

SpecRls == LedgerInit /\ [][RlsNext]_vars

(***************************************************************************)
(* Whole calls of the stored procedures, for callers that run them one at  *)
(* a time: the same statements, from SELECT or UPDATE to RETURN.           *)
(***************************************************************************)
CallFailed(op, msg, P) ==
    [outcome |-> Raise([op |-> op], msg), profiles |-> P, rows |-> <<>>]

DecrementCall(P, A, uid, amt) ==
    LET current == SelectCredits(P, uid)
        c == [op |-> "decrement", amt |-> amt]
    IN  IF current.isNull THEN CallFailed("decrement", "User not found", P)
        ELSE IF Insufficient(current, amt)
        THEN CallFailed("decrement", "Insufficient credits", P)
        ELSE IF ~FkUserOk(A, uid)
        THEN CallFailed("decrement", "foreign key violation", P)
        ELSE [outcome |-> Ok(c, ReturnValue(c, current)),
              profiles |-> [P EXCEPT ![uid].credits =
                               DebitValue(P[uid].credits, current.v, amt)],
              rows |-> DebitRows(uid, amt)]

RefundCall(P, A, uid, amt) ==
    LET new == CreditValue(P[uid].credits, amt)
        current == IF RowExists(P, uid) THEN Val(new) ELSE Null
        c == [op |-> "refund", amt |-> amt]
    IN  IF ~FkUserOk(A, uid)
        THEN CallFailed("refund", "foreign key violation", P)
        ELSE [outcome |-> Ok(c, ReturnValue(c, current)),
              profiles |-> IF RowExists(P, uid)
                           THEN [P EXCEPT ![uid].credits = new] ELSE P,
              rows |-> RefundRows(uid, amt)]

(***************************************************************************)
(* Table video_jobs and its lifecycle.  The backend creates a job after    *)
(* debiting its owner and moves it on the provider's signals; a signal may *)
(* be delivered more than once.                                            *)
(***************************************************************************)
\* "Fixed duration: 8s (VEO) or 10s (Sora)"; 1 credit = 1 second
VeoSeconds == 8
SoraSeconds == 10
Durations == {VeoSeconds, SoraSeconds}

\* status TEXT DEFAULT 'pending'; the values of VideoJob.status
JobStatuses == {"pending", "generating", "completed", "failed"}
Terminal == {"completed", "failed"}
JobRow(uid, status, duration) ==
    [user_id |-> uid, status |-> status, duration |-> duration]
JobIds == 1..Len(jobs)

\* what the operations on jobs leave alone
jobsFrame == <<lock, pc, call, cur, wCredits, wTx, expected, planName, tierOut,
              planCols, billingVars, clientVars>>

\* create job: debit duration credits, then persist the job as pending and
\* hand it to the provider; a failed debit creates nothing
CreateJob(u, d) ==
    LET r == DecrementCall(profiles, authUsers, u, d)
    IN  /\ u \in authUsers
        /\ Len(jobs) < MaxJobs
        /\ last' = r.outcome
        /\ profiles' = r.profiles
        /\ log' = log \o r.rows
        /\ IF r.outcome.status = "ok"
           THEN /\ jobs' = Append(jobs, JobRow(u, "pending", d))
                /\ submitted' = submitted \cup {Len(jobs) + 1}
                /\ deliveries' = Append(deliveries, 0)
           ELSE UNCHANGED <<jobs, submitted, deliveries>>
        /\ UNCHANGED authUsers
        /\ UNCHANGED jobsFrame

\* the provider accepted the request
ProviderAck(j) ==
    /\ j \in submitted
    /\ jobs[j].status = "pending"
    /\ jobs' = [jobs EXCEPT ![j].status = "generating"]
    /\ UNCHANGED <<authUsers, profiles, log, last, submitted, deliveries>>
    /\ UNCHANGED jobsFrame

\* the provider signals completion; a no-op unless the job is generating
JobCompleted(j) ==
    /\ j \in submitted
    /\ jobs' = IF jobs[j].status = "generating"
               THEN [jobs EXCEPT ![j].status = "completed"] ELSE jobs
    /\ UNCHANGED <<authUsers, profiles, log, last, submitted, deliveries>>
    /\ UNCHANGED jobsFrame

\* the provider signals failure: a generating job becomes failed and its
\* owner is refunded the job's credits; otherwise a no-op
JobFailed(j) ==
    LET r == RefundCall(profiles, authUsers, jobs[j].user_id, jobs[j].duration)
    IN  /\ j \in submitted
        /\ deliveries[j] < MaxDeliveries
        /\ deliveries' = [deliveries EXCEPT ![j] = @ + 1]
        /\ IF jobs[j].status = "generating"
           THEN /\ jobs' = [jobs EXCEPT ![j].status = "failed"]
                /\ last' = r.outcome
                /\ profiles' = r.profiles
                /\ log' = log \o r.rows
           ELSE UNCHANGED <<jobs, last, profiles, log>>
        /\ UNCHANGED <<authUsers, submitted>>
        /\ UNCHANGED jobsFrame

\* the policies on video_jobs for an authenticated user: SELECT USING and
\* INSERT WITH CHECK (auth.uid() = user_id); no policy for UPDATE or DELETE
RlsPermitsAnyCmd(cmd, authUid, rowUser) == authUid = rowUser

RlsPermits(cmd, authUid, rowUser) ==
    cmd \in {"SELECT", "INSERT"} /\ authUid = rowUser

\* an authenticated user runs INSERT INTO video_jobs through the client API
UserInsertJob(u, rowUser, status, d) ==
    /\ u \in authUsers
    /\ Len(jobs) < MaxJobs
    /\ IF RlsPermits("INSERT", u, rowUser) /\ FkUserOk(authUsers, rowUser)
       THEN /\ jobs' = Append(jobs, JobRow(rowUser, status, d))
            /\ deliveries' = Append(deliveries, 0)
       ELSE UNCHANGED <<jobs, deliveries>>
    /\ UNCHANGED <<authUsers, profiles, log, last, submitted>>
    /\ UNCHANGED jobsFrame

\* an authenticated user runs UPDATE video_jobs SET status = ... WHERE id = j:
\* the rows no policy lets through are not updated
UserUpdateJob(u, j, status) ==
    /\ u \in authUsers
    /\ j \in JobIds
    /\ jobs' = IF RlsPermits("UPDATE", u, jobs[j].user_id)
               THEN [jobs EXCEPT ![j].status = status] ELSE jobs
    /\ UNCHANGED <<authUsers, profiles, log, last, submitted, deliveries>>
    /\ UNCHANGED jobsFrame

\* the status values a user writes
UserStatuses == {"pending", "completed"}

JobsNext ==
    \/ \E u \in Users : HandleNewUser(u)
    \/ \E u \in Users, d \in Durations : CreateJob(u, d)
    \/ \E j \in JobIds : ProviderAck(j)
    \/ \E j \in JobIds : JobCompleted(j)
    \/ \E j \in JobIds : JobFailed(j)
    \/ \E u \in Users, r \in Users, s \in UserStatuses :
          UserInsertJob(u, r, s, VeoSeconds)
    \/ \E u \in Users, j \in JobIds, s \in UserStatuses : UserUpdateJob(u, j, s)

SpecJobs == LedgerInit /\ [][JobsNext]_vars

\* p_type NULL; credit_transactions.type is TEXT NOT NULL
NullType == "(null)"

\* add_credits(p_user_id, p_amount, p_type), from UPDATE to RETURN
AddCall(P, A, uid, amt, type) ==
    LET new == CreditValue(P[uid].credits, amt)
        current == IF RowExists(P, uid) THEN Val(new) ELSE Null
        c == [op |-> "add", amt |-> amt]
    IN  IF type = NullType
        THEN CallFailed("add", "not-null violation", P)
        ELSE IF ~FkUserOk(A, uid)
        THEN CallFailed("add", "foreign key violation", P)
        ELSE [outcome |-> Ok(c, ReturnValue(c, current)),
              profiles |-> IF RowExists(P, uid)
                           THEN [P EXCEPT ![uid].credits = new] ELSE P,
              rows |-> AddRows(uid, amt, type)]

(***************************************************************************)
(* Plan changes and payments.  The backend, as service role, writes        *)
(* profiles.plan when a subscription changes and calls add_credits when a  *)
(* payment succeeds; an authenticated user may UPDATE any column of their  *)
(* own profiles row.                                                       *)
(***************************************************************************)
\* what the operations on plans and billing events leave alone
profileFrame == <<lock, pc, call, cur, wCredits, wTx, expected, jobs, submitted,
                  deliveries, planName, tierOut, clientVars>>

PlanChoices == {PlanVal(PlanFree), PlanVal(PlanPro), PlanVal(PlanProPro),
                PlanVal(PlanMaxPro)}
Families == {"creator", "professional"}
Ratios == {"9:16", "16:9"}

\* UPDATE profiles SET plan = p WHERE id = rowId, run as service role
UpdatePlan(rowId, p) ==
    /\ profiles[rowId].exists
    /\ planCols' = [planCols EXCEPT ![rowId] = UpdatedPlanCols(@, [plan |-> p])]
    /\ UNCHANGED <<authUsers, profiles, log, last, billingVars>>
    /\ UNCHANGED profileFrame

\* the set lists a user sends
UserSets ==
    {[plan |-> p] : p \in PlanChoices}
    \cup {[plan_family |-> f] : f \in Families}
    \cup {[preferred_aspect_ratio |-> r] : r \in Ratios}
    \cup {[plan |-> p, plan_family |-> f] : p \in PlanChoices, f \in Families}

\* UPDATE profiles SET <set list> WHERE id = rowId, run by user u under the
\* policy "Users can update their own profile"
UserUpdateColumns(u, rowId, set) ==
    /\ u \in authUsers
    /\ profiles[rowId].exists
    /\ UserUpdateAllowed(u, rowId)
    /\ planCols' = [planCols EXCEPT ![rowId] = UpdatedPlanCols(@, set)]
    /\ UNCHANGED <<authUsers, profiles, log, last, billingVars>>
    /\ UNCHANGED profileFrame

\* a payment-success event of the billing provider: its identifier fixes the
\* account and the credits paid for
EventOf(e) ==
    [user |-> ((e - 1) % NumUsers) + 1, credits |-> AmountUnit]

\* a lookup that never finds the event
EventLoggedNever(logs, e) == FALSE

\* webhook_logs has a row with this event_id
EventLogged(logs, e) == e \in logs

\* the event is delivered: unless its identifier is already in webhook_logs
\* it is logged and applied: add_credits is called
DeliverEvent(e) ==
    LET ev == EventOf(e)
        r == AddCall(profiles, authUsers, ev.user, ev.credits, "subscription")
    IN  /\ ev.user \in authUsers
        /\ eventDeliveries[e] < MaxDeliveries
        /\ eventDeliveries' = [eventDeliveries EXCEPT ![e] = @ + 1]
        /\ IF EventLogged(webhookLogs, e)
           THEN UNCHANGED <<webhookLogs, profiles, log, last>>
           ELSE /\ webhookLogs' = webhookLogs \cup {e}
                /\ profiles' = r.profiles
                /\ log' = log \o r.rows
                /\ last' = r.outcome
        /\ UNCHANGED <<authUsers, planCols>>
        /\ UNCHANGED profileFrame

ProfileNext ==
    \/ \E u \in Users : HandleNewUser(u)
    \/ \E u \in Users, p \in PlanChoices : UpdatePlan(u, p)
    \/ \E u \in Users, r \in Users, set \in UserSets : UserUpdateColumns(u, r, set)
    \/ \E e \in Events : DeliverEvent(e)

SpecProfile == LedgerInit /\ [][ProfileNext]_vars

(***************************************************************************)
(* The stored procedures called one at a time with every kind of argument: *)
(* the id of an account, an id auth.users does not have, the id of a user  *)
(* who signed up before profiles and its trigger existed, NULL; and any    *)
(* text as p_type.                                                         *)
(***************************************************************************)
CallIds == Ids \cup {NullId}
PTypes == {"credit", "subscription", "bonus", NullType}

callsFrame == <<lock, pc, call, cur, wCredits, wTx, expected, jobs, submitted,
                deliveries, planName, tierOut, planCols, billingVars, clientVars>>

CallOutcome(r) ==
    /\ last' = r.outcome
    /\ profiles' = r.profiles
    /\ log' = log \o r.rows
    /\ UNCHANGED authUsers
    /\ UNCHANGED callsFrame

DecrementCredits(uid, amt) ==
    /\ Len(log) < MaxLog
    /\ CallOutcome(DecrementCall(profiles, authUsers, uid, amt))

RefundCredits(uid, amt) ==
    /\ Len(log) < MaxLog
    /\ CallOutcome(RefundCall(profiles, authUsers, uid, amt))

AddCredits(uid, amt, type) ==
    /\ Len(log) < MaxLog
    /\ CallOutcome(AddCall(profiles, authUsers, uid, amt, type))

\* auth.users is the identity provider's table: it may hold users from
\* before this schema was installed, for whom handle_new_user never ran
CallsInit ==
    /\ authUsers \in SUBSET Users
    /\ NoRowsInit
    /\ form = NoForm
    /\ AuthClosedInit
    /\ PagesClosedInit
    /\ planName = NullPlan
    /\ tierOut = "unset"

\* p_amount INTEGER: positive, zero or negative
CallAmounts == Amounts \cup {0} \cup {-a : a \in Amounts}

CallsNext ==
    \/ \E u \in Users : HandleNewUser(u)
    \/ \E u \in Users, v \in UserValues : UserUpdateProfile(u, u, v)
    \/ \E uid \in CallIds, amt \in CallAmounts : DecrementCredits(uid, amt)
    \/ \E uid \in CallIds, amt \in CallAmounts : RefundCredits(uid, amt)
    \/ \E uid \in CallIds, amt \in CallAmounts, type \in PTypes :
          AddCredits(uid, amt, type)

SpecCalls == CallsInit /\ [][CallsNext]_vars

(***************************************************************************)
(* Generation requests: POST /api/videos/generate with user_id, duration   *)
(* and ai_model.  The backend resolves the account's tier from its plan,   *)
(* checks or fixes the duration, then creates the job.                     *)
(***************************************************************************)
\* ai_model?: 'sora2' | 'veo3_fast' | 'veo3'
AiModels == {"sora2", "veo3_fast", "veo3"}

\* a fixed duration that is the same for every model
FixedDurationSoraOnly(aiModel) == SoraSeconds

\* "8 secondes pour les modeles VEO, 10 secondes pour les modeles Sora"
FixedDuration(aiModel) == IF aiModel = "sora2" THEN SoraSeconds ELSE VeoSeconds

\* "Validation de la duree (Professional uniquement): Minimum 6, Maximum 60"
MinDuration == 6
MaxDuration == 60
ValidDuration(d) == MinDuration <= d /\ d <= MaxDuration

\* the durations clients send: the ends of the slider of VideoGenerator (10 and
\* 60), the two bounds and their outer neighbours
RequestedDurations == {MinDuration - 1, MinDuration, 10, MaxDuration, MaxDuration + 1}

\* the credits of a purchase: enough for one video of the longest duration
PackCredits == 60

\* a purchase by an account that cannot pay for the longest video
TopUp(u) ==
    /\ profiles[u].exists
    /\ profiles[u].credits < PackCredits
    /\ CallOutcome(AddCall(profiles, authUsers, u, PackCredits, "credit"))

GenerateVideo(u, aiModel, d) ==
    LET tier == get_tier_from_plan(planCols[u].plan)
    IN  /\ u \in authUsers
        /\ IF tier = "professional" /\ ~ValidDuration(d)
           THEN /\ last' = Raise([op |-> "generate"], "InvalidDuration")
                /\ UNCHANGED <<authUsers, profiles, log, jobs, submitted, deliveries>>
                /\ UNCHANGED jobsFrame
           ELSE CreateJob(u, IF tier = "professional" THEN d ELSE FixedDuration(aiModel))

GenerateNext ==
    \/ \E u \in Users : HandleNewUser(u)
    \/ \E u \in Users, p \in PlanChoices : UpdatePlan(u, p)
    \/ \E u \in Users : TopUp(u)
    \/ \E u \in Users, aiModel \in AiModels, d \in RequestedDurations :
          GenerateVideo(u, aiModel, d)

SpecGenerate == LedgerInit /\ [][GenerateNext]_vars

(***************************************************************************)
(* VideoGallery({ userId }): the list of the user's jobs and the polling   *)
(* of those that are pending or generating.  A response carries what the   *)
(* backend read when the request was made and arrives any time later.      *)
(***************************************************************************)
GalleryUser == 1

galleryFrame == <<authUsers, profiles, log, last, jobs, submitted, deliveries, lock,
                  pc, call, cur, wCredits, wTx, expected, planName, tierOut,
                  planCols, billingVars, form, authStore, authClient, pageVars>>

\* GET /api/users/{userId}/videos: the user's jobs as the backend reads them,
\* job id -> status
UserVideos(rows, userId) ==
    [j \in {i \in 1..Len(rows) : rows[i].user_id = userId} |-> rows[j].status]

\* data.videos.filter(v => v.status === 'pending' || v.status === 'generating')
\*            .map(v => v.id)
PendingIds(data) ==
    {j \in DOMAIN data : data[j] \in {"pending", "generating"}}

\* loadVideos(): the request is made
LoadVideos == listInFlight' = listInFlight \cup {UserVideos(jobs, GalleryUser)}

\* useEffect(() => { loadVideos() }, [userId]) on mount
MountGallery ==
    /\ ~galleryMounted
    /\ GalleryUser \in authUsers
    /\ galleryMounted' = TRUE
    /\ LoadVideos
    /\ UNCHANGED <<polling, tickPolling, statusInFlight, seenTerminal, videos>>
    /\ UNCHANGED galleryFrame

\* loadVideos() resumes after its await: setVideos(data.videos), setPolling
\* adds pendingIds
LoadVideosResponse(data) ==
    /\ data \in listInFlight
    /\ listInFlight' = listInFlight \ {data}
    /\ videos' = data
    /\ polling' = polling \cup PendingIds(data)
    /\ UNCHANGED <<galleryMounted, tickPolling, statusInFlight, seenTerminal>>
    /\ UNCHANGED galleryFrame

\* useEffect(..., [polling]) runs again after a render with a new polling:
\* the old interval is cleared and a new one closes over the new value
RunPollingEffect ==
    /\ galleryMounted
    /\ tickPolling # polling
    /\ tickPolling' = polling
    /\ UNCHANGED <<galleryMounted, polling, statusInFlight, listInFlight,
                   seenTerminal, videos>>
    /\ UNCHANGED galleryFrame

\* the interval callback: polling.forEach(jobId => videoApi.getStatus(jobId))
PollingTick ==
    /\ galleryMounted
    /\ tickPolling # {}
    /\ statusInFlight' = statusInFlight
           \cup {[job |-> j, status |-> jobs[j].status] : j \in tickPolling}
    /\ UNCHANGED <<galleryMounted, polling, tickPolling, listInFlight, seenTerminal,
                   videos>>
    /\ UNCHANGED galleryFrame

\* a terminal status that does not lead to a new list
RefreshListNever == UNCHANGED listInFlight

\* loadVideos(); // Refresh list
RefreshList == LoadVideos

\* .then(job => { if (job.status === 'completed' || job.status === 'failed')
\*                   { setPolling(delete jobId); loadVideos() } })
StatusResponse(m) ==
    /\ m \in statusInFlight
    /\ statusInFlight' = statusInFlight \ {m}
    /\ IF m.status \in Terminal
       THEN /\ polling' = polling \ {m.job}
            /\ seenTerminal' = seenTerminal \cup {m.job}
            /\ RefreshList
       ELSE UNCHANGED <<polling, seenTerminal, listInFlight>>
    /\ UNCHANGED <<galleryMounted, tickPolling, videos>>
    /\ UNCHANGED galleryFrame

GalleryJobs == <<JobRow(GalleryUser, "pending", VeoSeconds),
                 JobRow(GalleryUser, "pending", VeoSeconds)>>

\* the database when the user opens the gallery: the account was created, a
\* pack of credits was bought and two videos were requested, both pending
GalleryDb ==
    LET A == {GalleryUser}
        P0 == [[u \in Ids |-> NoProfile] EXCEPT ![GalleryUser] = NewProfile]
        bought == AddCall(P0, A, GalleryUser, PackCredits, "credit")
        first == DecrementCall(bought.profiles, A, GalleryUser, VeoSeconds)
        second == DecrementCall(first.profiles, A, GalleryUser, VeoSeconds)
    IN  /\ authUsers = A
        /\ profiles = second.profiles
        /\ log = bought.rows \o first.rows \o second.rows
        /\ last = second.outcome
        /\ expected = [[u \in Ids |-> 0] EXCEPT ![GalleryUser] = InitialCredits]
        /\ planCols = [[u \in Ids |-> NoPlanCols] EXCEPT
                          ![GalleryUser] = InsertedPlanCols(PlanVal(PlanFree))]
        /\ jobs = GalleryJobs
        /\ submitted = {1, 2}
        /\ deliveries = <<0, 0>>
        /\ webhookLogs = {}
        /\ eventDeliveries = [e \in Events |-> 0]

GalleryInit ==
    /\ GalleryDb
    /\ IdleInit
    /\ ClientInit
    /\ form = NoForm
    /\ AuthClosedInit
    /\ PagesClosedInit
    /\ planName = NullPlan
    /\ tierOut = "unset"

GalleryNext ==
    \/ \E j \in JobIds : ProviderAck(j)
    \/ \E j \in JobIds : jobs[j].status = "generating" /\ JobCompleted(j)
    \/ \E j \in JobIds : jobs[j].status = "generating" /\ JobFailed(j)
    \/ MountGallery
    \/ \E data \in listInFlight : LoadVideosResponse(data)
    \/ RunPollingEffect
    \/ PollingTick
    \/ \E m \in statusInFlight : StatusResponse(m)

\* the effect runs after every render, the interval keeps firing and every
\* request is answered; the provider is not bound to finish a job
GalleryFairness ==
    /\ WF_vars(RunPollingEffect)
    /\ WF_vars(PollingTick)
    /\ \A j \in DOMAIN GalleryJobs, s \in JobStatuses :
           WF_vars(StatusResponse([job |-> j, status |-> s]))
    /\ \A data \in [DOMAIN GalleryJobs -> JobStatuses] :
           WF_vars(LoadVideosResponse(data))

SpecGallery == GalleryInit /\ [][GalleryNext]_vars /\ GalleryFairness

(***************************************************************************)
(* VideoGenerator: the form with the duration slider and the quality       *)
(* radio buttons, and handleGenerate, which checks the user's credits      *)
(* before it posts the request.                                            *)
(***************************************************************************)
SliderMin == 10
SliderMax == 60
SliderStep == 10
ClipSeconds == 10

\* <input type="range" min="10" max="60" step="10">
SelectableDurations ==
    {d \in SliderMin..SliderMax : (d - SliderMin) % SliderStep = 0}

Qualities == {"basic", "pro_720p", "pro_1080p"}

\* Math.ceil(duration / 10)
NumClips(duration) == (duration + ClipSeconds - 1) \div ClipSeconds

\* let requiredCredits = numClips; times 3 for pro_720p, times 5 for pro_1080p
RequiredCredits(duration, quality) ==
    CASE quality = "pro_720p" -> NumClips(duration) * 3
      [] quality = "pro_1080p" -> NumClips(duration) * 5
      [] OTHER -> NumClips(duration)

\* userData.credits as the store holds it; userData may be null
FormCredits == {0, 2, 3, 9, 10, 30, 59, 60}

FormInputs ==
    {[open |-> TRUE, user |-> u, hasInput |-> i, duration |-> d, quality |-> q,
      hasUserData |-> h, credits |-> c, out |-> "editing"] :
        u \in BOOLEAN, i \in BOOLEAN, d \in SelectableDurations, q \in Qualities,
        h \in {TRUE}, c \in FormCredits}
    \cup
    {[open |-> TRUE, user |-> u, hasInput |-> i, duration |-> d, quality |-> q,
      hasUserData |-> FALSE, credits |-> 0, out |-> "editing"] :
        u \in BOOLEAN, i \in BOOLEAN, d \in SelectableDurations, q \in Qualities}

\* handleGenerate up to the request: "notConnected", "noPrompt" and
\* "insufficient" are its three early returns, "submitted" is videoApi.generate
HandleGenerate ==
    /\ form.open
    /\ form.out = "editing"
    /\ form' = [form EXCEPT !.out =
           IF ~form.user THEN "notConnected"
           ELSE IF ~form.hasInput THEN "noPrompt"
           ELSE IF form.hasUserData
                   /\ form.credits < RequiredCredits(form.duration, form.quality)
                THEN "insufficient"
           ELSE "submitted"]
    /\ UNCHANGED <<authUsers, profiles, log, last, jobs, submitted, deliveries,
                   lock, pc, call, cur, wCredits, wTx, expected, planName,
                   tierOut, planCols, billingVars, galleryMounted, polling,
                   tickPolling, statusInFlight, listInFlight, seenTerminal,
                   videos, authStore, authClient, pageVars>>

FormInit ==
    /\ authUsers = {}
    /\ NoRowsInit
    /\ planName = NullPlan
    /\ tierOut = "unset"
    /\ form \in FormInputs
    /\ AuthClosedInit
    /\ PagesClosedInit

FormNext == HandleGenerate

SpecForm == FormInit /\ [][FormNext]_vars

(***************************************************************************)
(* The auth store (useAuthStore) and what writes it: AuthProvider, the     *)
(* dashboard page and the payment-success page.  A request is answered     *)
(* any time after it was made; the session is the identity provider's.     *)
(***************************************************************************)
authFrame == <<authUsers, profiles, log, last, jobs, submitted, deliveries, lock,
               pc, call, cur, wCredits, wTx, expected, planName, tierOut,
               planCols, billingVars, galleryMounted, polling, tickPolling,
               statusInFlight, listInFlight, seenTerminal, videos, form, pageVars>>

\* fetchUserData(userId) up to its await: userApi.getInfo is on its way;
\* thenLoaded says that the caller runs setLoading(false) when it is over
FetchUserData(fetches, userId, thenLoaded) ==
    fetches \cup {[user |-> userId, thenLoaded |-> thenLoaded]}

\* useEffect of AuthProvider: getSession() is called and the listener is
\* registered; the client library may or may not call a new listener with
\* the current session
MountAuthProvider ==
    /\ ~authClient.mounted
    /\ \E initial \in {<<>>, <<authClient.session>>} :
           authClient' = [authClient EXCEPT !.mounted = TRUE,
                                            !.getSession = "pending",
                                            !.events = initial]
    /\ UNCHANGED authStore
    /\ UNCHANGED authFrame

\* .then(({ data: { session } }) => { setUser; if (session?.user) syncUser;
\*                                     setLoading(false) })
GetSessionResolves ==
    /\ authClient.getSession = "pending"
    /\ authStore' = [authStore EXCEPT !.user = authClient.session,
                                      !.loading = FALSE]
    /\ authClient' = [authClient EXCEPT
           !.getSession = "resolved",
           !.fetches = IF authClient.session # NoUser
                       THEN FetchUserData(@, authClient.session, FALSE) ELSE @]
    /\ UNCHANGED authFrame

\* the promise of getSession() is rejected: the .then callback does not run
\* and there is no .catch
GetSessionRejects ==
    /\ authClient.getSession = "pending"
    /\ authClient' = [authClient EXCEPT !.getSession = "rejected"]
    /\ UNCHANGED authStore
    /\ UNCHANGED authFrame

\* the browser's session changes: sign-in, sign-out, another account
SessionChange(s) ==
    /\ s # authClient.session
    /\ Len(authClient.events) < MaxAuthEvents
    /\ authClient' = [authClient EXCEPT
           !.session = s,
           !.events = IF authClient.mounted THEN Append(@, s) ELSE @]
    /\ UNCHANGED authStore
    /\ UNCHANGED authFrame

\* onAuthStateChange(async (_event, session) => { setUser; if (session?.user)
\* await syncUser ... ; setLoading(false) })
AuthStateChange ==
    /\ authClient.events # <<>>
    /\ LET s == Head(authClient.events) IN
       /\ authStore' = [authStore EXCEPT
              !.user = s,
              !.loading = IF s = NoUser THEN FALSE ELSE @]
       /\ authClient' = [authClient EXCEPT
              !.events = Tail(@),
              !.fetches = IF s # NoUser THEN FetchUserData(@, s, TRUE) ELSE @]
    /\ UNCHANGED authFrame

\* const data = await userApi.getInfo(userId); set({ userData: data })
FetchResponse(f) ==
    /\ f \in authClient.fetches
    /\ authClient' = [authClient EXCEPT !.fetches = @ \ {f}]
    /\ authStore' = [authStore EXCEPT
           !.userData = f.user,
           !.loading = IF f.thenLoaded THEN FALSE ELSE @]
    /\ UNCHANGED authFrame

\* catch (error) { console.error(...) }
FetchFails(f) ==
    /\ f \in authClient.fetches
    /\ authClient' = [authClient EXCEPT !.fetches = @ \ {f}]
    /\ authStore' = [authStore EXCEPT
           !.loading = IF f.thenLoaded THEN FALSE ELSE @]
    /\ UNCHANGED authFrame

\* DashboardPage: if (user && !userData) fetchUserData(user.id)
DashboardEffect ==
    /\ authStore.user # NoUser
    /\ authStore.userData = NoUser
    /\ [user |-> authStore.user, thenLoaded |-> FALSE] \notin authClient.fetches
    /\ authClient' = [authClient EXCEPT
           !.fetches = FetchUserData(@, authStore.user, FALSE)]
    /\ UNCHANGED authStore
    /\ UNCHANGED authFrame

\* PaymentSuccessContent is rendered and its effect runs
OpenPaymentSuccess(hasSessionId) ==
    /\ authClient.page = "closed"
    /\ LET fetch == hasSessionId /\ StoredUserId # NoUser IN
       authClient' = [authClient EXCEPT
           !.page = "open",
           !.pageSessionId = hasSessionId,
           !.pageFetched = IF fetch THEN StoredUserId ELSE @,
           !.fetches = IF fetch THEN FetchUserData(@, StoredUserId, FALSE) ELSE @]
    /\ UNCHANGED authStore
    /\ UNCHANGED authFrame

AuthInit ==
    /\ authUsers = {}
    /\ NoRowsInit
    /\ form = NoForm
    /\ planName = NullPlan
    /\ tierOut = "unset"
    /\ PagesClosedInit
    /\ authStore = AuthStoreInit
    /\ \E s \in AuthIds \cup {NoUser} :
           authClient = [NoAuthClient EXCEPT !.session = s]

Settle == GetSessionResolves \/ GetSessionRejects
Answer(f) == FetchResponse(f) \/ FetchFails(f)
FetchRecords == [user : AuthIds, thenLoaded : BOOLEAN]

AuthNext ==
    \/ MountAuthProvider
    \/ GetSessionResolves
    \/ GetSessionRejects
    \/ \E s \in AuthIds \cup {NoUser} : SessionChange(s)
    \/ AuthStateChange
    \/ \E f \in authClient.fetches : FetchResponse(f)
    \/ \E f \in authClient.fetches : FetchFails(f)
    \/ DashboardEffect
    \/ \E hasSessionId \in BOOLEAN : OpenPaymentSuccess(hasSessionId)

\* every pending promise settles, every queued event reaches the listener
\* and every effect runs; the user is not bound to do anything
AuthFairness ==
    /\ WF_vars(MountAuthProvider)
    /\ WF_vars(Settle)
    /\ WF_vars(AuthStateChange)
    /\ \A f \in FetchRecords : WF_vars(Answer(f))
    /\ WF_vars(DashboardEffect)

SpecAuth == AuthInit /\ [][AuthNext]_vars /\ AuthFairness

\* the arguments tried: NULL, every string of at most MaxPlanLen characters
\* of PlanAlphabet, and plan names the application uses
PlanAlphabet == {"_", "p", "r", "o", "P", "x"}
\* "Yearly: starter_pro_yearly, premium_pro_yearly, pro_pro_yearly,
\* max_pro_yearly", listed under PROFESSIONAL TIER
YearlyProPlans ==
    {<<"s", "t", "a", "r", "t", "e", "r", "_", "p", "r", "o", "_", "y", "e", "a", "r", "l", "y">>,
     <<"p", "r", "e", "m", "i", "u", "m", "_", "p", "r", "o", "_", "y", "e", "a", "r", "l", "y">>,
     <<"p", "r", "o", "_", "p", "r", "o", "_", "y", "e", "a", "r", "l", "y">>,
     <<"m", "a", "x", "_", "p", "r", "o", "_", "y", "e", "a", "r", "l", "y">>}
\* "Legacy: creator_basic, creator_pro, creator_max", listed under CREATOR TIER
LegacyCreatorPlans ==
    {<<"c", "r", "e", "a", "t", "o", "r", "_", "b", "a", "s", "i", "c">>,
     <<"c", "r", "e", "a", "t", "o", "r", "_", "p", "r", "o">>,
     <<"c", "r", "e", "a", "t", "o", "r", "_", "m", "a", "x">>}
NamedPlans ==
    {<<"f", "r", "e", "e">>, <<"p", "r", "o">>, <<"m", "a", "x">>,
     <<"m", "a", "x", "_", "p", "r", "o">>,
     <<"P", "R", "E", "M", "I", "U", "M", "_", "P", "R", "O">>,
     <<"M", "a", "x", "_", "P", "r", "o">>,
     <<"p", "r", "o", "_", "p", "r", "o">>,
     <<"p", "r", "e", "m", "i", "u", "m", "_", "p", "r", "o">>,
     <<"s", "t", "a", "r", "t", "e", "r", "_", "p", "r", "o">>,
     <<"c", "r", "e", "a", "t", "o", "r", "_", "p", "r", "o">>,
     <<"p", "r", "o", "_", "p", "r", "o", "_", "y", "e", "a", "r", "l", "y">>}
    \cup YearlyProPlans \cup LegacyCreatorPlans
PlanInputs ==
    {NullPlan}
    \cup {PlanVal(s) : s \in UNION {[1..n -> PlanAlphabet] : n \in 0..MaxPlanLen}}
    \cup {PlanVal(s) : s \in NamedPlans}

\* SELECT get_tier_from_plan(planName)
Classify ==
    /\ tierOut = "unset"
    /\ tierOut' = get_tier_from_plan(planName)
    /\ UNCHANGED <<authUsers, profiles, log, lock, pc, call, cur, wCredits, wTx,
                   last, expected, jobs, submitted, deliveries, planName,
                   planCols, billingVars, clientVars>>

TierInit ==
    /\ EmptyInit
    /\ planName \in PlanInputs
    /\ tierOut = "unset"

TierNext == Classify

SpecTier == TierInit /\ [][TierNext]_vars

(***************************************************************************)
(* PricingPage: three plan cards, the monthly/annual switch, and onSelect, *)
(* which asks the backend for a checkout of `${planKey}_${billingCycle}`.  *)
(* An identifier is the sequence of its words between underscores.         *)
(***************************************************************************)
MaxCheckouts == 2

PlanKeys == {<<"premium">>, <<"pro">>, <<"max">>}
BillingCycles == {"monthly", "annual"}

\* `${planKey}_${billingCycle}`
PlanId(planKey, billingCycle) == planKey \o <<billingCycle>>

pricingFrame == <<authUsers, profiles, log, last, jobs, submitted, deliveries,
                  lock, pc, call, cur, wCredits, wTx, expected, planName,
                  tierOut, planCols, billingVars, galleryMounted, polling,
                  tickPolling, statusInFlight, listInFlight, seenTerminal, videos, form,
                  authStore, authClient, callback, launcher>>

\* onClick={() => setBillingCycle(...)}
SetBillingCycle(c) ==
    /\ pricing.open
    /\ pricing.location = "/pricing"
    /\ c # pricing.billingCycle
    /\ pricing' = [pricing EXCEPT !.billingCycle = c]
    /\ UNCHANGED pricingFrame

\* onSelect(plan.key) up to the await of stripeApi.createCheckout
OnSelect(planKey) ==
    /\ pricing.open
    /\ pricing.location = "/pricing"
    /\ Len(pricing.checkouts) < MaxCheckouts
    /\ pricing' =
           IF pricing.user = NoUser
           THEN [pricing EXCEPT !.location = "/login"]
           ELSE [pricing EXCEPT
                    !.checkouts = Append(@, [plan |-> PlanId(planKey,
                                                              pricing.billingCycle),
                                             user_id |-> pricing.user]),
                    !.pending = @ + 1]
    /\ UNCHANGED pricingFrame

\* if (res.checkout_url) window.location.href = res.checkout_url; a rejected
\* request falls into the empty catch
CheckoutAnswered(hasUrl) ==
    /\ pricing.open
    /\ pricing.pending > 0
    /\ pricing' = [pricing EXCEPT
           !.pending = @ - 1,
           !.location = IF hasUrl /\ @ = "/pricing" THEN "checkout" ELSE @]
    /\ UNCHANGED pricingFrame

PricingInit ==
    /\ authUsers = {}
    /\ NoRowsInit
    /\ form = NoForm
    /\ AuthClosedInit
    /\ planName = NullPlan
    /\ tierOut = "unset"
    /\ callback = NoCallback
    /\ launcher = NoLauncher
    /\ \E u \in AuthIds \cup {NoUser}, c \in BillingCycles :
           pricing = [open |-> TRUE, user |-> u, billingCycle |-> c,
                      checkouts |-> <<>>, pending |-> 0, location |-> "/pricing"]

PricingNext ==
    \/ \E c \in BillingCycles : SetBillingCycle(c)
    \/ \E planKey \in PlanKeys : OnSelect(planKey)
    \/ \E hasUrl \in BOOLEAN : CheckoutAnswered(hasUrl)

SpecPricing == PricingInit /\ [][PricingNext]_vars

(***************************************************************************)
(* GET /auth/callback: the route the identity provider sends the browser   *)
(* back to.  A query parameter is absent, empty or a text; a redirect is   *)
(* given by its path and the value of its error parameter as the receiver  *)
(* decodes it.                                                             *)
(***************************************************************************)
Absent == "(absent)"
ParamValues == {Absent, "", "x"}
Messages == {"", "m"}

\* what createRouteHandlerClient and exchangeCodeForSession do with the code
ExchangeResults ==
    {[kind |-> "ok", message |-> ""]}
    \cup {[kind |-> k, message |-> msg] : k \in {"error", "throws"}, msg \in Messages}

\* JavaScript's test of a string or null in a condition
Truthy(v) == v # Absent /\ v # ""

\* a || b
OrElse(a, b) == IF Truthy(a) THEN a ELSE b

Redirect(path, error) == [path |-> path, error |-> error]

\* a handler that takes every answer of the exchange for a success
ExchangeFailedNever(result) == FALSE

\* if (exchangeError)
ExchangeFailed(result) == result.kind = "error"

\* the handler, lines 6-47
GET(req) ==
    IF Truthy(req.error)
    THEN Redirect("/login", OrElse(req.errorDescription, req.error))
    ELSE IF ~Truthy(req.code)
    THEN Redirect("/login", "missing_code")
    ELSE IF req.exchange.kind = "throws"
    THEN Redirect("/login", OrElse(req.exchange.message, "Une erreur est survenue"))
    ELSE IF ExchangeFailed(req.exchange)
    THEN Redirect("/login", req.exchange.message)
    ELSE Redirect("/dashboard", Absent)

CallbackRequests ==
    [error : ParamValues, errorDescription : ParamValues, code : ParamValues,
     exchange : ExchangeResults]

\* the handler answers the request
HandleCallback ==
    /\ callback.open
    /\ callback.response = NoResponse
    /\ callback' = [callback EXCEPT !.response = GET(callback.request)]
    /\ UNCHANGED <<authUsers, profiles, log, last, jobs, submitted, deliveries,
                   lock, pc, call, cur, wCredits, wTx, expected, planName,
                   tierOut, planCols, billingVars, galleryMounted, polling,
                   tickPolling, statusInFlight, listInFlight, seenTerminal, videos,
                   form, authStore, authClient, pricing, launcher>>

CallbackInit ==
    /\ authUsers = {}
    /\ NoRowsInit
    /\ form = NoForm
    /\ AuthClosedInit
    /\ pricing = NoPricing
    /\ planName = NullPlan
    /\ tierOut = "unset"
    /\ launcher = NoLauncher
    /\ \E req \in CallbackRequests :
           callback = [open |-> TRUE, request |-> req, response |-> NoResponse]

CallbackNext == HandleCallback

SpecCallback == CallbackInit /\ [][CallbackNext]_vars

(***************************************************************************)
(* start-server.js: the launcher checks that the standalone server file    *)
(* exists, spawns the server as a child process, forwards SIGTERM and      *)
(* SIGINT to it and exits when the child does.                             *)
(***************************************************************************)
MaxSignals == 3

ForwardedSignals == {"SIGTERM", "SIGINT"}
\* the signals that end the child: the forwarded ones and a kill from outside
KillSignals == ForwardedSignals \cup {"SIGKILL"}
\* exit codes of the server: 0 after a graceful shutdown, 1 or 2 on an error,
\* 130 and 143 when it exits by itself on SIGINT and SIGTERM
ChildCodes == {0, 1, 2, 130, 143}

\* process.exit(code || 1), where code is null when a signal ended the child
ExitStatus(childExit) ==
    IF childExit.kind = "code" /\ childExit.code # 0 THEN childExit.code ELSE 1

launcherFrame == <<authUsers, profiles, log, last, jobs, submitted, deliveries,
                   lock, pc, call, cur, wCredits, wTx, expected, planName,
                   tierOut, planCols, billingVars, galleryMounted, polling,
                   tickPolling, statusInFlight, listInFlight, seenTerminal, videos,
                   form, authStore, authClient, pricing, callback>>

\* lines 57-62 and 80-84: the file check, then spawn('node', [serverPath])
StartLauncher ==
    /\ launcher.phase = "start"
    /\ launcher' =
           IF ~launcher.fileExists
           THEN [launcher EXCEPT !.phase = "exited", !.cause = "missingFile",
                                 !.status = 1]
           ELSE [launcher EXCEPT !.phase = "running"]
    /\ UNCHANGED launcherFrame

\* server.on('error'): the child could not be started
SpawnError ==
    /\ launcher.phase = "running"
    /\ launcher.forwarded = <<>>
    /\ launcher' = [launcher EXCEPT !.phase = "exited", !.cause = "spawnError",
                                    !.status = 1]
    /\ UNCHANGED launcherFrame

\* process.on('SIGTERM'), process.on('SIGINT'): server.kill(signal)
ReceiveSignal(sig) ==
    /\ launcher.phase = "running"
    /\ Len(launcher.forwarded) < MaxSignals
    /\ launcher' = [launcher EXCEPT !.forwarded = Append(@, sig)]
    /\ UNCHANGED launcherFrame

\* server.on('exit', (code, signal) => ... process.exit(code || 1))
ChildExit(childExit) ==
    /\ launcher.phase = "running"
    /\ launcher' = [launcher EXCEPT !.phase = "exited", !.cause = "childExit",
                                    !.childExit = childExit,
                                    !.status = ExitStatus(childExit)]
    /\ UNCHANGED launcherFrame

ChildExits ==
    {[kind |-> "code", code |-> c, signal |-> "none"] : c \in ChildCodes}
    \cup {[kind |-> "signal", code |-> 0, signal |-> s] : s \in KillSignals}

LauncherInit ==
    /\ authUsers = {}
    /\ NoRowsInit
    /\ form = NoForm
    /\ AuthClosedInit
    /\ pricing = NoPricing
    /\ callback = NoCallback
    /\ planName = NullPlan
    /\ tierOut = "unset"
    /\ \E fileExists \in BOOLEAN :
           launcher = [phase |-> "start", fileExists |-> fileExists,
                       forwarded |-> <<>>, cause |-> "none",
                       childExit |-> NoChildExit, status |-> 0]

LauncherNext ==
    \/ StartLauncher
    \/ SpawnError
    \/ \E sig \in ForwardedSignals : ReceiveSignal(sig)
    \/ \E childExit \in ChildExits : ChildExit(childExit)

SpecLauncher == LauncherInit /\ [][LauncherNext]_vars

(***************************************************************************)
(* Claims about the credit ledger.                                         *)
(***************************************************************************)
Committed(p) == pc[p] = "return" /\ pc'[p] = "idle"

\* C1: ledger conservation: for every account, credits equals the sum of
\* amount over the credit_transactions rows of that account, from the
\* moment handle_new_user creates the profile.
C1_LedgerConservation ==
    \A u \in Ids : profiles[u].exists => profiles[u].credits = SumAmounts(log, u)

\* C2: a failed debit has no effect: decrement_credits with p_amount above
\* the account's current credits raises 'Insufficient credits', and with an
\* id that has no profile raises 'User not found'; either way credits and
\* credit_transactions stay as they were.
C2_FailedDebitNoEffect ==
    [][\A p \in Procs, uid \in Ids, amt \in Amounts :
          DecSelect(p, uid, amt) =>
             /\ ~profiles[uid].exists =>
                   /\ last'.status = "error" /\ last'.error = "User not found"
                   /\ pc'[p] = "idle" /\ profiles' = profiles /\ log' = log
             /\ (profiles[uid].exists /\ amt > profiles[uid].credits) =>
                   /\ last'.status = "error" /\ last'.error = "Insufficient credits"
                   /\ pc'[p] = "idle" /\ profiles' = profiles /\ log' = log
             /\ (profiles[uid].exists /\ amt <= profiles[uid].credits) =>
                   pc'[p] = "update"]_vars

C2_Witness ==
    /\ last.op = "decrement" /\ last.error = "Insufficient credits"
    /\ \E u \in Users : profiles[u].exists /\ profiles[u].credits < AmountUnit
                        /\ profiles[u].credits >= 0

\* C3: whatever the interleaving of decrement_credits calls on an account,
\* its credits is never below 0.
C3_NeverNegative ==
    \A u \in Ids : profiles[u].credits >= 0

\* C4: no lost updates: the debits that succeed on an account all count: its
\* credits is what the committed operations add up to, whatever their
\* interleaving (for two debits: the initial credits minus both amounts).
C4_NoLostUpdate ==
    \A u \in Ids : profiles[u].exists => profiles[u].credits = expected[u]

\* two debits of one account that both read the balance before either wrote
C4_Witness ==
    \E u \in Users :
        /\ Len(log) = 2
        /\ \A i \in 1..2 : log[i].type = "debit" /\ log[i].user_id = u
        /\ profiles[u].credits = InitialCredits + log[1].amount + log[2].amount
        /\ profiles[u].credits < 0

C9_CreditsOnlyThroughLedger ==
    [][\A a \in Ids :
          (profiles[a].exists /\ profiles'[a].credits # profiles[a].credits) =>
             \E p \in Procs : Committed(p) /\ call[p].uid = a]_vars

(***************************************************************************)
(* Claims about the job lifecycle.                                         *)
(***************************************************************************)
RefundRowIds(u, d) == {i \in 1..Len(log) : log[i] = TxRow(u, d, "refund")}
FailedJobIds(u, d) == {j \in submitted : jobs[j] = JobRow(u, "failed", d)}

RECURSIVE HeldCredits(_, _)
\* the credits of u that jobs created by the backend hold: the durations of
\* those among jobs 1..n that have not failed
HeldCredits(n, u) ==
    IF n = 0 THEN 0
    ELSE (IF n \in submitted /\ jobs[n].user_id = u /\ jobs[n].status # "failed"
          THEN jobs[n].duration ELSE 0) + HeldCredits(n - 1, u)

RefundedOnce ==
    /\ \A u \in Users, d \in Durations :
          Cardinality(RefundRowIds(u, d)) = Cardinality(FailedJobIds(u, d))
    /\ \A i \in 1..Len(log) : log[i].type = "refund" => log[i].amount \in Durations
    /\ \A u \in Users : profiles[u].exists =>
          profiles[u].credits = InitialCredits - HeldCredits(Len(jobs), u)

\* C5: for every job that fails exactly one refund row is recorded, of the
\* amount debited when the job was created (its duration), however often the
\* job-failed signal is delivered: the step that fails the job appends that
\* one row and gives the credits back, and a delivery for a job already
\* failed leaves the balance, the log and the job unchanged.
C5_ExactlyOneRefund ==
    [][/\ RefundedOnce'
       /\ \A j \in submitted :
             /\ (jobs[j].status # "failed" /\ jobs'[j].status = "failed") =>
                   /\ log' = Append(log, TxRow(jobs[j].user_id, jobs[j].duration,
                                               "refund"))
                   /\ profiles'[jobs[j].user_id].credits =
                          profiles[jobs[j].user_id].credits + jobs[j].duration
             /\ (jobs[j].status = "failed" /\ deliveries'[j] # deliveries[j]) =>
                   UNCHANGED <<profiles, log, jobs>>]_vars

\* the job-failed signal of a failed job was delivered again: one refund row
C5_Witness ==
    \E j \in submitted :
        /\ jobs[j].status = "failed"
        /\ deliveries[j] >= 2
        /\ Cardinality(RefundRowIds(jobs[j].user_id, jobs[j].duration)) = 1
        /\ profiles[jobs[j].user_id].credits = InitialCredits

RECURSIVE SumDurations(_, _)
SumDurations(rows, u) ==
    IF rows = <<>> THEN 0
    ELSE (IF Head(rows).user_id = u THEN Head(rows).duration ELSE 0)
         + SumDurations(Tail(rows), u)

RECURSIVE SumDebits(_, _)
SumDebits(rows, u) ==
    IF rows = <<>> THEN 0
    ELSE (IF Head(rows).user_id = u /\ Head(rows).type = "debit"
          THEN -Head(rows).amount ELSE 0) + SumDebits(Tail(rows), u)

\* C6: reservation: every video_jobs row was created after a successful
\* debit of its duration on the owning account, so the durations of an
\* account's job rows add up to the debits recorded for it.
C6_Reservation ==
    \A u \in Users : SumDurations(jobs, u) = SumDebits(log, u)

Transitions ==
    {<<"pending", "generating">>, <<"generating", "completed">>,
     <<"generating", "failed">>}

\* C7: a job's status changes only along pending -> generating,
\* generating -> completed or generating -> failed, and nothing else of the
\* row changes; a completed or failed job's row stays as it is whatever
\* signal or statement arrives for it.
C7_StatusTransitions ==
    [][/\ Len(jobs') >= Len(jobs)
       /\ \A j \in JobIds :
             /\ jobs'[j] # jobs[j] =>
                   /\ <<jobs[j].status, jobs'[j].status>> \in Transitions
                   /\ jobs'[j] = [jobs[j] EXCEPT !.status = jobs'[j].status]
             /\ jobs[j].status \in Terminal => jobs'[j] = jobs[j]]_vars

\* a completed job has received a job-failed signal and is still completed
C7_Witness ==
    \E j \in submitted : jobs[j].status = "completed" /\ deliveries[j] >= 1

(***************************************************************************)
(* Claims about the tier classifier.                                       *)
(***************************************************************************)
EndsWith(s, suffix) ==
    /\ Len(s) >= Len(suffix)
    /\ SubSeq(s, Len(s) - Len(suffix) + 1, Len(s)) = suffix

ProSuffix == <<"_", "p", "r", "o">>

C11_CachedTierFields ==
    \A u \in Users : profiles[u].exists =>
        /\ planCols[u].plan_family = get_tier_from_plan(planCols[u].plan)
        /\ planCols[u].preferred_aspect_ratio =
               IF planCols[u].plan_family = "professional" THEN "16:9" ELSE "9:16"

C13_YearlyProPlans ==
    (tierOut # "unset" /\ ~planName.isNull /\ planName.v \in YearlyProPlans)
        => (tierOut = "professional"
            /\ get_aspect_ratio_from_tier(tierOut) = "16:9")

\* C14: get_tier_from_plan classifies the legacy plans creator_basic,
\* creator_pro and creator_max as creator.
C14_LegacyCreatorPlans ==
    (tierOut # "unset" /\ ~planName.isNull /\ planName.v \in LegacyCreatorPlans)
        => (tierOut = "creator" /\ get_aspect_ratio_from_tier(tierOut) = "9:16")

(***************************************************************************)
(* Claims about single calls of the stored procedures.                     *)
(***************************************************************************)
\* C15: refund_credits for an existing account succeeds whatever the
\* balance and adds the amount; for an id that has no profile it fails and
\* appends no credit_transactions row.
C15_RefundOutcome ==
    [][\A uid \in CallIds, amt \in Amounts :
          RefundCredits(uid, amt) =>
              IF RowExists(profiles, uid)
              THEN /\ last'.status = "ok"
                   /\ profiles'[uid].credits = profiles[uid].credits + amt
              ELSE /\ last'.status = "error"
                   /\ log' = log]_vars

\* C19: every credit_transactions row has type debit, credit, refund or
\* subscription, whatever p_type add_credits is called with.
C19_TransactionTypes ==
    \A i \in 1..Len(log) :
        log[i].type \in {"debit", "credit", "refund", "subscription"}

(***************************************************************************)
(* Claims about generation requests.                                       *)
(***************************************************************************)
\* C16: duration enforcement: a request of a professional account with a
\* duration outside [6, 60] is rejected with InvalidDuration and causes no
\* debit and no job, while duration 60 is accepted (the job has 60 seconds
\* and 60 credits are debited when the account holds them); a request of a
\* creator account yields a job of the model's fixed duration, 8 s for VEO
\* and 10 s for Sora, whatever duration was sent.
C16_DurationEnforcement ==
    [][\A u \in Users, aiModel \in AiModels, d \in RequestedDurations :
          GenerateVideo(u, aiModel, d) =>
              LET pro == get_tier_from_plan(planCols[u].plan) = "professional"
                  fixed == IF aiModel = "sora2" THEN 10 ELSE 8
              IN  /\ (pro /\ (d < 6 \/ d > 60)) =>
                         /\ last'.error = "InvalidDuration"
                         /\ UNCHANGED <<profiles, log, jobs>>
                  /\ (pro /\ d = 60 /\ profiles[u].credits >= 60) =>
                         /\ jobs' = Append(jobs, JobRow(u, "pending", 60))
                         /\ profiles'[u].credits = profiles[u].credits - 60
                  /\ (~pro /\ profiles[u].credits >= fixed) =>
                         /\ jobs' = Append(jobs, JobRow(u, "pending", fixed))
                         /\ profiles'[u].credits = profiles[u].credits - fixed
                  /\ (~pro /\ jobs' # jobs) =>
                         jobs'[Len(jobs')].duration = fixed]_vars

\* a professional account has a job of 60 seconds and a creator-made job of
\* 8 seconds, and its last request was rejected for its duration
C16_Witness ==
    /\ last.error = "InvalidDuration"
    /\ \E u \in Users :
          /\ get_tier_from_plan(planCols[u].plan) = "professional"
          /\ \E j \in JobIds : jobs[j] = JobRow(u, "pending", 60)
          /\ \E j \in JobIds : jobs[j] = JobRow(u, "pending", 8)

(***************************************************************************)
(* Claims about billing events.                                            *)
(***************************************************************************)
SubscriptionRowIds(u) ==
    {i \in 1..Len(log) : log[i] = TxRow(u, AmountUnit, "subscription")}
AppliedEvents(u) == {e \in webhookLogs : EventOf(e).user = u}

GrantedOnce ==
    \A u \in Users :
        /\ Cardinality(SubscriptionRowIds(u)) = Cardinality(AppliedEvents(u))
        /\ profiles[u].exists =>
              profiles[u].credits
                  = InitialCredits + AmountUnit * Cardinality(AppliedEvents(u))

C18_PollingStops ==
    [][/\ \A m \in statusInFlight :
             (StatusResponse(m) /\ m.status \in Terminal) => m.job \notin polling'
       /\ PollingTick => tickPolling \cap seenTerminal = {}]_vars

(***************************************************************************)
(* Claims about VideoGenerator.                                            *)
(***************************************************************************)
\* C20: 1 credit = 1 second: for every selectable duration and quality the
\* number of credits handleGenerate requires equals the duration in seconds,
\* so a request is submitted exactly when the user holds at least as many
\* credits as the video has seconds.
C20_CreditPerSecond ==
    (form.open /\ form.out \in {"insufficient", "submitted"} /\ form.hasUserData)
        => /\ RequiredCredits(form.duration, form.quality) = form.duration
           /\ (form.out = "submitted") <=> (form.credits >= form.duration)

\* C21: free users are professional by default: an account whose plan is
\* 'free', the plan of every newly provisioned account, has tier
\* professional, both as get_tier_from_plan derives it from the plan and as
\* plan_family stores it.
C21_FreeIsProfessional ==
    \A u \in Users :
        (profiles[u].exists /\ planCols[u].plan = PlanVal(PlanFree)) =>
            /\ get_tier_from_plan(planCols[u].plan) = "professional"
            /\ planCols[u].plan_family = "professional"

(***************************************************************************)
(* Claims about the auth store and the pages that use it.                  *)
(***************************************************************************)
\* C22: when the payment-success page is opened with a session_id by a
\* signed-in user, it eventually calls fetchUserData for a user, so that
\* the credits in the auth store are refreshed.
C22_PaymentSuccessRefresh ==
    (/\ authClient.page = "open"
     /\ authClient.pageSessionId
     /\ authClient.session # NoUser) ~> (authClient.pageFetched # NoUser)

\* C26: whenever userData is non-null it is the data of the user the store
\* holds as signed in; after a sign-out or a switch of account userData
\* never holds the previous user's data.
C26_UserDataOfUser ==
    authStore.userData # NoUser => authStore.userData = authStore.user

\* C28: after AuthProvider mounts, the store's loading flag eventually
\* becomes false, whether getSession resolves with a session, resolves
\* without one, or fails.
C28_LoadingEnds ==
    authClient.mounted ~> ~authStore.loading

(***************************************************************************)
(* Claims about the pricing page.                                          *)
(***************************************************************************)
\* the values the guide documents for the plan parameter of create-checkout
DocumentedPlans ==
    {<<"creator", "basic">>, <<"creator", "pro">>, <<"creator", "max">>,
     <<"starter">>, <<"pro">>, <<"max">>,
     <<"creator", "basic", "yearly">>, <<"creator", "pro", "yearly">>,
     <<"creator", "max", "yearly">>,
     <<"starter", "annual">>, <<"pro", "annual">>, <<"max", "annual">>}

\* C23: every plan identifier the pricing page passes to
\* stripeApi.createCheckout is one of the documented values of the plan
\* parameter, for every plan card and both billing cycles.
C23_DocumentedPlanIds ==
    \A i \in 1..Len(pricing.checkouts) :
        pricing.checkouts[i].plan \in DocumentedPlans

\* C24: a successful decrement_credits call returns the value the account's
\* credits has right after that call's own update, also when another ledger
\* operation on the same account ran between the call's read and its update.
C24_DebitReturnsNewBalance ==
    [][\A p \in Procs :
          (Return(p) /\ call[p].op = "decrement") =>
              last'.value = Val(profiles'[call[p].uid].credits)]_vars

\* C25: no ledger call moves the balance in the wrong direction:
\* decrement_credits never increases an account's credits, and
\* refund_credits and add_credits never decrease them, for every integer
\* p_amount including zero and negative values.
C25_BalanceDirection ==
    [][\A uid \in CallIds, amt \in CallAmounts, u \in Users :
          /\ DecrementCredits(uid, amt) =>
                 profiles'[u].credits <= profiles[u].credits
          /\ RefundCredits(uid, amt) =>
                 profiles'[u].credits >= profiles[u].credits
          /\ \A type \in PTypes :
                 AddCredits(uid, amt, type) =>
                     profiles'[u].credits >= profiles[u].credits]_vars

\* C27: if a job that the gallery lists as pending or generating has reached
\* completed or failed on the server, and the component stays mounted and
\* its requests keep being answered, then the gallery's list eventually
\* shows that job with its terminal status.
C27_ListShowsTerminal ==
    \A j \in DOMAIN GalleryJobs :
        (/\ galleryMounted
         /\ j \in DOMAIN videos
         /\ videos[j] \in {"pending", "generating"}
         /\ jobs[j].status \in Terminal)
            ~> (j \in DOMAIN videos /\ videos[j] = jobs[j].status)

\* a job that was listed, polled until its status was failed and taken out
\* of polling is listed as failed
C27_Witness ==
    \E j \in DOMAIN GalleryJobs :
        /\ j \in seenTerminal
        /\ j \in DOMAIN videos
        /\ videos[j] = "failed"
        /\ jobs[j].status = "failed"
        /\ j \notin polling

(***************************************************************************)
(* Claims about the /auth/callback route.                                  *)
(***************************************************************************)
\* the exchange was made and gave a session
ExchangeSucceeded(req) ==
    Truthy(req.code) /\ ~Truthy(req.error) /\ req.exchange.kind = "ok"

\* C29 as stated: the handler redirects to /dashboard only when the request
\* carries no error parameter, carries a code, and the exchange succeeded;
\* in every other case it redirects to /login with an error parameter.
C29_CallbackRedirect ==
    (callback.open /\ callback.response # NoResponse) =>
        LET req == callback.request
            good == /\ req.error = Absent
                    /\ req.code # Absent
                    /\ ExchangeSucceeded(req)
        IN  /\ callback.response.path = "/dashboard" => good
            /\ ~good => /\ callback.response.path = "/login"
                        /\ callback.response.error # Absent

\* C29, amended: the handler redirects to /dashboard exactly when the error
\* parameter is absent or empty, the code is not empty, and the exchange
\* succeeded; in every other case it redirects to /login with an error
\* parameter.
C29_CallbackRedirectAmended ==
    (callback.open /\ callback.response # NoResponse) =>
        LET req == callback.request
            good == /\ req.error \in {Absent, ""}
                    /\ req.code \notin {Absent, ""}
                    /\ req.exchange.kind = "ok"
        IN  /\ callback.response.path = "/dashboard" <=> good
            /\ ~good => /\ callback.response.path = "/login"
                        /\ callback.response.error # Absent

\* the exchange threw and the handler sent the browser to /login
C29_Witness ==
    /\ callback.open
    /\ callback.request.error = Absent
    /\ callback.request.code = "x"
    /\ callback.request.exchange.kind = "throws"
    /\ callback.response = Redirect("/login", "Une erreur est survenue")

(***************************************************************************)
(* Claims about the launcher script.                                       *)
(***************************************************************************)
\* C30: the launcher exits with the server child's exit status: when the
\* child exits with code c the launcher exits with code c, in particular 0
\* when the child exits 0 after a forwarded SIGTERM or SIGINT, and it exits
\* non-zero when the child is killed by a signal, fails to start, or the
\* server file is missing.
C30_LauncherExitStatus ==
    launcher.phase = "exited" =>
        /\ (launcher.cause = "childExit" /\ launcher.childExit.kind = "code")
               => launcher.status = launcher.childExit.code
        /\ (launcher.cause = "childExit" /\ launcher.childExit.kind = "signal")
               => launcher.status # 0
        /\ launcher.cause \in {"spawnError", "missingFile"} => launcher.status # 0

====
